---- MODULE Spec2Model ----
(***************************************************************************)
(* Model of the WDFW high-lakes scripts:                                   *)
(*   get_high_lakes_plants.py  dispatcher (main), fetch_lake_data,         *)
(*                             scrape_dynamic_table                        *)
(*   enrich_data.py            merge of lakes and fish plants by key       *)
(*   denormalizer.py           flatten of lake-with-events records         *)
(***************************************************************************)
EXTENDS Integers, Sequences, FiniteSets, TLC

(***************************************************************************)
(* Bounds of the model.                                                    *)
(***************************************************************************)
MaxLakes == 2          \* longest input list of InitRun
PoolLakes == 5         \* length of the input list of InitPool
FaultBudget == 20      \* failures the environment injects in a run of Next
RunFaultBudget == 1    \* failures the environment injects in a run of NextRun
PoolFaultBudget == 1   \* failures the environment injects in a run of NextPool
MaxRecs == 2           \* longest lake list and plant list of InitEnrich
MaxFlat == 2           \* longest lake list of InitFlatten
MaxEvents == 2         \* most events of a lake of InitFlatten

(***************************************************************************)
(* Program constants of get_high_lakes_plants.py.                          *)
(***************************************************************************)
max_workers == 4           \* main
max_retries == 5           \* fetch_lake_data default
base_delay == 1            \* fetch_lake_data / scrape_dynamic_table default
scrape_max_retries == 3    \* scrape_dynamic_table default

\* the data rows a rendered table can hold
PageRows == {<<>>, <<"a">>}

\* a lake record of high_lakes.json: which of the keys it carries
LakeRecords == [name : BOOLEAN, county : BOOLEAN, url : BOOLEAN]
WellFormed(lake) == lake.name /\ lake.county /\ lake.url

VARIABLES
    hlfile,          \* high_lakes.json (exists, data)
    lakes,           \* main: the list read from high_lakes.json
    future,          \* per lake: "pending" | "running" | "result" | "exception"
    attempt,         \* per lake: loop variable of fetch_lake_data
    sattempt,        \* per lake: loop variable of scrape_dynamic_table
    drivers,         \* per lake: drivers created and not yet quit
    plants,          \* per lake: lake_copy["plants"] of the returned record
    yielded,         \* main: futures already taken from as_completed
    all_lakes_data,  \* main: the collected results
    outfile,         \* all_lakes_data.json
    mainpc,          \* main: "idle" | "open" | "collect" | "shutdown" |
                     \*   "done" | "aborted" | "raised"
    faults,          \* failures injected so far
    loads,           \* per lake: page loads made (driver.get calls)
    creations,       \* per lake: driver creations attempted
    pagefails,       \* per lake: recoverable page-load failures seen
    drvfaults,       \* per lake: driver creation / teardown exceptions seen
    backoff,         \* per lake: seconds slept, jitter excluded
    last,            \* per lake: outcome of the latest page load
    served           \* per lake: data rows of the latest page load

VARIABLES
    efiles,               \* enrich_data: the two input files (exists, data)
    lakes_data,           \* enrich_data: the lakes read from high_lakes.json
    plants_data,          \* enrich_data: the records of wdfw_fish_plants.json
    plants_lookup,        \* enrich_data: key -> list of plant records
    enriched_lakes_data,  \* enrich_data: the lakes with their plants
    matched_count,        \* enrich_data: lakes that found their key
    epc,                  \* enrich_data: "idle" | "load" | "index" | "match" |
                          \*   "save" | "done" | "returned" | "raised"
    eoutfile              \* enriched_high_lakes_data.json

evars == <<efiles, lakes_data, plants_data, plants_lookup, enriched_lakes_data,
           matched_count, epc, eoutfile>>

VARIABLES
    ffile,              \* denormalizer: the input file (exists, data)
    data,               \* denormalizer: the loaded list of lakes
    denormalized_data,  \* denormalizer: the rows produced so far
    fpc,                \* denormalizer: "idle" | "load" | "flatten" | "save" |
                        \*   "done" | "returned"
    foutfile            \* the output file

fvars == <<ffile, data, denormalized_data, fpc, foutfile>>

dvars == <<hlfile, lakes, future, attempt, sattempt, drivers, plants, yielded,
           all_lakes_data, outfile, mainpc, faults, loads, creations,
           pagefails, drvfaults, backoff, last, served>>

VARIABLES
    site,                  \* the listing of one county: the responses to the
                           \*   requests for pages 0 .. Len(site) - 1
    beyond,                \* the response to a request for any later page
    page,                  \* scrape_lakes_per_county: the page counter
    all_lakes_for_county,  \* scrape_lakes_per_county: the records so far
    requested,             \* the page numbers requested, in request order
    gpc                    \* scrape_lakes_per_county: "idle" | "loop" | "returned"

gvars == <<site, beyond, page, all_lakes_for_county, requested, gpc>>

VARIABLES
    date_input,   \* the value handed to convert_date_to_iso first
    date_fields,  \* the date the value was written from, if any
    results,      \* the return values of the successive calls, each call on
                  \*   the value returned by the call before
    warned        \* per call: whether it printed the warning

cvars == <<date_input, date_fields, results, warned>>

vars == <<dvars, evars, fvars, gvars, cvars>>

Idx == 1..Len(lakes)

Pow2(n) == IF n = 0 THEN 1 ELSE IF n = 1 THEN 2 ELSE IF n = 2 THEN 4
           ELSE IF n = 3 THEN 8 ELSE IF n = 4 THEN 16 ELSE 32

\* base_delay * (2 ** attempt); the jitter term random.uniform(0, 1) is left out
Delay(a) == base_delay * Pow2(a)

\* the sleeps of the fetch_lake_data handler over attempts a .. a+c-1
DelaySum(a, c) == base_delay * (Pow2(a + c) - Pow2(a))

File(ex, d) == [exists |-> ex, data |-> d]

\* the state in which enrich_data is at p, before the files are read
EnrichInit(lf, pf, p) ==
    /\ efiles = [lakes |-> lf, plants |-> pf]
    /\ lakes_data = <<>>
    /\ plants_data = <<>>
    /\ plants_lookup = <<>>
    /\ enriched_lakes_data = <<>>
    /\ matched_count = 0
    /\ epc = p
    /\ eoutfile = [written |-> FALSE, data |-> <<>>]

EnrichIdle == EnrichInit(File(FALSE, <<>>), File(FALSE, <<>>), "idle")

\* the state in which main is at p, before high_lakes.json (f) is read
DispatchInit(f, p) ==
    /\ hlfile = f
    /\ lakes = <<>>
    /\ future = <<>>
    /\ attempt = <<>>
    /\ sattempt = <<>>
    /\ drivers = <<>>
    /\ plants = <<>>
    /\ yielded = {}
    /\ all_lakes_data = <<>>
    /\ outfile = [written |-> FALSE, data |-> <<>>]
    /\ mainpc = p
    /\ faults = 0
    /\ loads = <<>>
    /\ creations = <<>>
    /\ pagefails = <<>>
    /\ drvfaults = <<>>
    /\ backoff = <<>>
    /\ last = <<>>
    /\ served = <<>>

DispatchIdle == DispatchInit(File(FALSE, <<>>), "idle")

\* the state in which denormalize_and_save_to_json is at p on input file f
FlattenInit(f, p) ==
    /\ ffile = f
    /\ data = <<>>
    /\ denormalized_data = <<>>
    /\ fpc = p
    /\ foutfile = [written |-> FALSE, data |-> <<>>]

FlattenIdle == FlattenInit(File(FALSE, <<>>), "idle")

\* the state in which scrape_lakes_per_county is at p on the listing s, b
EnumInit(s, b, p) ==
    /\ site = s
    /\ beyond = b
    /\ page = 0
    /\ all_lakes_for_county = <<>>
    /\ requested = <<>>
    /\ gpc = p

NoPage == [kind |-> "notable", rows |-> <<>>, next |-> FALSE]

EnumIdle == EnumInit(<<>>, NoPage, "idle")

\* the state before convert_date_to_iso is called on str, written from f
DateInit(str, f) ==
    /\ date_input = str
    /\ date_fields = f
    /\ results = <<>>
    /\ warned = <<>>

NoFields == [ok |-> FALSE, y |-> 0, m |-> 0, d |-> 0]

\* no call of convert_date_to_iso is made
DateIdle == DateInit(<<"None">>, NoFields)

InitWith(f) ==
    DispatchInit(f, "open") /\ EnrichIdle /\ FlattenIdle /\ EnumIdle /\ DateIdle

\* one lake handed to fetch_lake_data, any failure pattern
Init ==
    \E ls \in [1..1 -> LakeRecords] : InitWith(File(TRUE, ls))

\* any list of up to MaxLakes lake records, or no file
InitRun ==
    \/ \E n \in 0..MaxLakes : \E ls \in [1..n -> LakeRecords] :
          InitWith(File(TRUE, ls))
    \/ InitWith(File(FALSE, <<>>))

\* more lakes than worker processes; the last record may lack its county
InitPool ==
    \E k \in BOOLEAN :
        InitWith(File(TRUE, [l \in 1..PoolLakes |->
                    [name |-> TRUE, county |-> (l < PoolLakes \/ k), url |-> TRUE]]))

\* lines 126-138: high_lakes.json is read and one call of fetch_lake_data
\* per lake is submitted; open() raises FileNotFoundError for a missing
\* file, nothing catches it and main ends with the traceback
MainOpen ==
    /\ UNCHANGED <<evars, fvars, gvars, cvars>>
    /\ mainpc = "open"
    /\ IF hlfile.exists
       THEN /\ lakes' = hlfile.data
            /\ future' = [l \in 1..Len(hlfile.data) |-> "pending"]
            /\ attempt' = [l \in 1..Len(hlfile.data) |-> 0]
            /\ sattempt' = [l \in 1..Len(hlfile.data) |-> 0]
            /\ drivers' = [l \in 1..Len(hlfile.data) |-> 0]
            /\ plants' = [l \in 1..Len(hlfile.data) |-> <<>>]
            /\ loads' = [l \in 1..Len(hlfile.data) |-> 0]
            /\ creations' = [l \in 1..Len(hlfile.data) |-> 0]
            /\ pagefails' = [l \in 1..Len(hlfile.data) |-> 0]
            /\ drvfaults' = [l \in 1..Len(hlfile.data) |-> 0]
            /\ backoff' = [l \in 1..Len(hlfile.data) |-> 0]
            /\ last' = [l \in 1..Len(hlfile.data) |-> "none"]
            /\ served' = [l \in 1..Len(hlfile.data) |-> <<>>]
            /\ mainpc' = "collect"
       ELSE /\ mainpc' = "raised"
            /\ UNCHANGED <<lakes, future, attempt, sattempt, drivers, plants,
                           loads, creations, pagefails, drvfaults, backoff,
                           last, served>>
    /\ UNCHANGED <<hlfile, yielded, all_lakes_data, outfile, faults>>

Running == {l \in Idx : future[l] = "running"}

Return_RaiseWhenEmpty(l, p) ==
    /\ future' = [future EXCEPT ![l] = IF p = <<>> THEN "exception" ELSE "result"]
    /\ plants' = [plants EXCEPT ![l] = p]

\* fetch_lake_data returns lake_copy with lake_copy["plants"] = p
Return(l, p) ==
    /\ future' = [future EXCEPT ![l] = "result"]
    /\ plants' = [plants EXCEPT ![l] = p]

\* The worker of lake l is at the top of the for loop of scrape_dynamic_table
\* with fetch_lake_data in attempt a and scrape_dynamic_table in attempt s,
\* having slept bo seconds, seen df driver exceptions and holding d drivers.
\* It runs on until a driver is live or fetch_lake_data returns:
\* webdriver.Chrome(options) raises c times in a row (it is called outside
\* the try, so each exception reaches the handler of fetch_lake_data, which
\* sleeps and starts the next attempt).
Resume(l, a, s, c, bo, df, d) ==
    IF a = max_retries \/ s = scrape_max_retries
    THEN \* a = max_retries: lines 116-121, the loop of fetch_lake_data is
         \* exhausted; s = scrape_max_retries: lines 88-89 return None,
         \* line 105 stores [], line 110 returns
         /\ c = 0
         /\ Return(l, <<>>)
         /\ attempt' = [attempt EXCEPT ![l] = a]
         /\ sattempt' = [sattempt EXCEPT ![l] = s]
         /\ backoff' = [backoff EXCEPT ![l] = bo]
         /\ drvfaults' = [drvfaults EXCEPT ![l] = df]
         /\ drivers' = [drivers EXCEPT ![l] = d]
         /\ UNCHANGED creations
    ELSE /\ a + c <= max_retries
         /\ attempt' = [attempt EXCEPT ![l] = a + c]
         /\ sattempt' = [sattempt EXCEPT ![l] = IF c = 0 THEN s ELSE 0]
         /\ backoff' = [backoff EXCEPT ![l] = bo + DelaySum(a, c)]
         /\ drvfaults' = [drvfaults EXCEPT ![l] = df + c]
         /\ IF a + c = max_retries
            THEN /\ Return(l, <<>>)
                 /\ creations' = [creations EXCEPT ![l] = @ + c]
                 /\ drivers' = [drivers EXCEPT ![l] = d]
            ELSE /\ creations' = [creations EXCEPT ![l] = @ + c + 1]
                 /\ drivers' = [drivers EXCEPT ![l] = d + 1]
                 /\ future' = [future EXCEPT ![l] = "running"]
                 /\ UNCHANGED plants

\* ProcessPoolExecutor: a free worker process takes the next submitted call
\* and runs fetch_lake_data up to its first page load, or to its end
Start(l, c, b) ==
    /\ UNCHANGED <<hlfile, evars, fvars, gvars, cvars>>
    /\ future[l] = "pending"
    /\ Cardinality(Running) < max_workers
    /\ \A k \in Idx : k < l => future[k] # "pending"
    /\ faults + c <= b
    /\ faults' = faults + c
    /\ IF ~(lakes[l].county /\ lakes[l].name)
       THEN \* KeyError at line 101; the handler at line 113 reads
            \* formatted_lake_name, which is unbound in the first attempt, and
            \* the UnboundLocalError leaves fetch_lake_data
            /\ c = 0
            /\ future' = [future EXCEPT ![l] = "exception"]
            /\ UNCHANGED <<attempt, sattempt, drivers, plants, creations,
                           drvfaults, backoff>>
       ELSE IF ~lakes[l].url
       THEN \* KeyError at line 104 in every attempt, caught at line 111
            /\ c = 0
            /\ Resume(l, max_retries, 0, 0, DelaySum(0, max_retries), 0, 0)
       ELSE Resume(l, 0, 0, c, 0, 0, 0)
    /\ UNCHANGED <<lakes, yielded, all_lakes_data, outfile, mainpc,
                   loads, pagefails, last, served>>

Outcomes == {"rows", "nocontent", "webdriver", "other"}

Failure_NoContentRetried(o) == o \in {"webdriver", "other", "nocontent"}

\* the outcomes that reach an except clause of scrape_dynamic_table
Failure(o) == o \in {"webdriver", "other"}

Bit(b) == IF b THEN 1 ELSE 0

Quit_Skipped(l) == drivers[l]

\* finally: driver.quit() -- the drivers lake l holds after the call (a
\* driver whose quit() raised counts as quit: the call was made)
Quit(l) == drivers[l] - 1

\* The try / except / finally of one attempt of scrape_dynamic_table and the
\* code up to the next page load: driver.get and the render wait end in
\* outcome o (with rows r when the table was found), the handlers sleep, and
\* finally driver.quit() is called; quitok tells whether driver.quit()
\* returned or raised; c as in Resume; b caps the failures of the run.
LoadPage(l, o, r, quitok, c, b) ==
    /\ UNCHANGED <<hlfile, evars, fvars, gvars, cvars>>
    /\ future[l] = "running"
    /\ (o # "rows") => r = <<>>
    /\ faults + Bit(Failure(o)) + Bit(~quitok) + c <= b
    /\ faults' = faults + Bit(Failure(o)) + Bit(~quitok) + c
    /\ loads' = [loads EXCEPT ![l] = @ + 1]
    /\ last' = [last EXCEPT ![l] = o]
    /\ served' = [served EXCEPT ![l] = r]
    /\ pagefails' = [pagefails EXCEPT ![l] = @ + Bit(Failure(o))]
    /\ IF ~quitok
       THEN \* the exception of driver.quit() replaces the return value, or
            \* follows the handler's sleep; fetch_lake_data catches it
            Resume(l, attempt[l] + 1, 0, c,
                   backoff[l] + Bit(Failure(o)) * Delay(sattempt[l])
                              + Delay(attempt[l]),
                   drvfaults[l] + 1, Quit(l))
       ELSE IF Failure(o)
       THEN \* lines 73-83: sleep, then the next attempt of the inner loop
            Resume(l, attempt[l], sattempt[l] + 1, c,
                   backoff[l] + Delay(sattempt[l]), drvfaults[l], Quit(l))
       ELSE \* return data_rows, or return [] when the caption is missing
            /\ c = 0
            /\ Return(l, r)
            /\ drivers' = [drivers EXCEPT ![l] = Quit(l)]
            /\ UNCHANGED <<attempt, sattempt, backoff, creations, drvfaults>>
    /\ UNCHANGED <<lakes, yielded, all_lakes_data, outfile, mainpc>>

Finished == {l \in Idx : future[l] \in {"result", "exception"}}

\* one iteration of `for future in as_completed(...)`: future.result()
\* returns the record, which is appended, or re-raises the worker's exception
Collect(l) ==
    /\ UNCHANGED <<hlfile, evars, fvars, gvars, cvars>>
    /\ mainpc = "collect"
    /\ l \in Finished \ yielded
    /\ yielded' = yielded \cup {l}
    /\ IF future[l] = "result"
       THEN /\ all_lakes_data' = Append(all_lakes_data, [lake |-> l, plants |-> plants[l]])
            /\ UNCHANGED mainpc
       ELSE /\ mainpc' = "shutdown"
            /\ UNCHANGED all_lakes_data
    /\ UNCHANGED <<lakes, future, attempt, sattempt, drivers, plants,
                   outfile, faults, loads, creations, pagefails,
                   drvfaults, backoff, last, served>>

WriteOutput_InLoop ==
    /\ UNCHANGED <<hlfile, evars, fvars, gvars, cvars>>
    /\ mainpc = "collect"
    /\ yielded # {}
    /\ outfile' = [written |-> TRUE, data |-> all_lakes_data]
    /\ mainpc' = IF yielded = Idx THEN "done" ELSE mainpc
    /\ UNCHANGED <<lakes, future, attempt, sattempt, drivers, plants,
                   yielded, all_lakes_data, faults, loads, creations,
                   pagefails, drvfaults, backoff, last, served>>

\* as_completed is exhausted, the with block ends, the file is written
WriteOutput ==
    /\ UNCHANGED <<hlfile, evars, fvars, gvars, cvars>>
    /\ mainpc = "collect"
    /\ yielded = Idx
    /\ outfile' = [written |-> TRUE, data |-> all_lakes_data]
    /\ mainpc' = "done"
    /\ UNCHANGED <<lakes, future, attempt, sattempt, drivers, plants,
                   yielded, all_lakes_data, faults, loads, creations,
                   pagefails, drvfaults, backoff, last, served>>

\* the exception leaves the with block: executor.shutdown(wait=True) returns
\* once every submitted call has finished, then main ends with the exception
Abort ==
    /\ UNCHANGED <<hlfile, evars, fvars, gvars, cvars>>
    /\ mainpc = "shutdown"
    /\ Finished = Idx
    /\ mainpc' = "aborted"
    /\ UNCHANGED <<lakes, future, attempt, sattempt, drivers, plants,
                   yielded, all_lakes_data, outfile, faults, loads,
                   creations, pagefails, drvfaults, backoff, last, served>>

\* the steps of a run in which the environment injects at most b failures
\* and serves pages with outcomes os and rows rs
Steps(b, os, rs) ==
    \/ MainOpen
    \/ \E l \in Idx : \E c \in 0..max_retries : Start(l, c, b)
    \/ \E l \in Idx : \E o \in os : \E r \in rs :
          \E q \in BOOLEAN : \E c \in 0..max_retries : LoadPage(l, o, r, q, c, b)
    \/ \E l \in Idx : Collect(l)
    \/ WriteOutput
    \/ Abort

Next == Steps(FaultBudget, Outcomes, PageRows)

NextRun == Steps(RunFaultBudget, Outcomes, PageRows)

NextPool == Steps(PoolFaultBudget, {"rows", "webdriver"}, {<<"a">>})

Spec == Init /\ [][Next]_vars

SpecRun == InitRun /\ [][NextRun]_vars

SpecPool == InitPool /\ [][NextPool]_vars

(***************************************************************************)
(* enrich_data.py.  A string is a sequence of one-character strings; a     *)
(* JSON object is a function from its keys to its values.                  *)
(***************************************************************************)
Space == " "
Digits == <<"0", "1", "2", "3", "4", "5", "6", "7", "8", "9">>
LowerCase == <<"a", "b", "c", "d", "e", "f", "g", "h", "i", "j", "k", "l", "m",
               "n", "o", "p", "q", "r", "s", "t", "u", "v", "w", "x", "y", "z">>
UpperCase == <<"A", "B", "C", "D", "E", "F", "G", "H", "I", "J", "K", "L", "M",
               "N", "O", "P", "Q", "R", "S", "T", "U", "V", "W", "X", "Y", "Z">>

IsDigit(ch) == \E i \in 1..Len(Digits) : Digits[i] = ch
DigitVal(ch) == (CHOOSE i \in 1..Len(Digits) : Digits[i] = ch) - 1

\* str.strip()
RECURSIVE LStrip(_)
LStrip(str) == IF str # <<>> /\ Head(str) = Space THEN LStrip(Tail(str)) ELSE str
RECURSIVE RStrip(_)
RStrip(str) ==
    IF str # <<>> /\ str[Len(str)] = Space
    THEN RStrip(SubSeq(str, 1, Len(str) - 1)) ELSE str
Strip(str) == RStrip(LStrip(str))

\* str.upper()
UpperChar(ch) ==
    IF \E i \in 1..Len(LowerCase) : LowerCase[i] = ch
    THEN UpperCase[CHOOSE i \in 1..Len(LowerCase) : LowerCase[i] = ch]
    ELSE ch
Upper(str) == [i \in 1..Len(str) |-> UpperChar(str[i])]

\* the number a string of decimal digits denotes
RECURSIVE DigitsVal(_)
DigitsVal(str) ==
    IF str = <<>> THEN 0
    ELSE 10 * DigitsVal(SubSeq(str, 1, Len(str) - 1)) + DigitVal(str[Len(str)])

\* int(str): surrounding whitespace and a sign are accepted, then digits
\* only; ok = FALSE stands for ValueError
IntParse(str) ==
    LET t == Strip(str)
        signed == t # <<>> /\ Head(t) \in {"+", "-"}
        u == IF signed THEN Tail(t) ELSE t
        ok == u # <<>> /\ \A i \in 1..Len(u) : IsDigit(u[i])
    IN  [ok |-> ok,
         val |-> IF ~ok THEN 0
                 ELSE IF signed /\ Head(t) = "-" THEN 0 - DigitsVal(u)
                 ELSE DigitsVal(u)]

\* str(n) of an integer
RECURSIVE NatStr(_)
NatStr(n) ==
    IF n < 10 THEN <<Digits[n + 1]>>
    ELSE NatStr(n \div 10) \o <<Digits[(n % 10) + 1]>>
StrInt(n) == IF n < 0 THEN <<"-">> \o NatStr(0 - n) ELSE NatStr(n)

\* re.search(r'\d+', str): the first maximal run of digits, <<>> for no match
RECURSIVE TakeDigits(_)
TakeDigits(str) ==
    IF str # <<>> /\ IsDigit(Head(str))
    THEN <<Head(str)>> \o TakeDigits(Tail(str)) ELSE <<>>
RECURSIVE FirstDigitRun(_)
FirstDigitRun(str) ==
    IF str = <<>> THEN <<>>
    ELSE IF IsDigit(Head(str)) THEN TakeDigits(str)
    ELSE FirstDigitRun(Tail(str))

\* dict.get(key, default)
Get(rec, key, default) == IF key \in DOMAIN rec THEN rec[key] ELSE default

\* f"{county}-{elevation}"
Key(county, elevation) == county \o <<"-">> \o elevation

Indexable_ElevationOnly(county, elevation) == elevation # <<>>

\* line 37: if county and elevation
Indexable(county, elevation) == county # <<>> /\ elevation # <<>>

\* line 42: the exceptions the loop over the plants swallows
Caught(exc) == exc \in {"ValueError", "IndexError"}

\* lines 26-41 for one plant record: the key it is filed under, no key, or
\* the exception raised
PlantKey(plant) ==
    LET county == Upper(Strip(Get(plant, "county", <<>>)))
        raw == Get(plant, "elevation", <<>>)
        parsed == IntParse(Strip(raw))
        elevation == IF raw # <<>> THEN StrInt(parsed.val) ELSE raw
    IN  IF raw # <<>> /\ ~parsed.ok THEN [kind |-> "raise", exc |-> "ValueError", key |-> <<>>]
        ELSE IF Indexable(county, elevation)
        THEN [kind |-> "key", exc |-> "", key |-> Key(county, elevation)]
        ELSE [kind |-> "skip", exc |-> "", key |-> <<>>]

\* lines 39-41: plants_lookup[key].append(plant)
AddPlant(lookup, key, plant) ==
    [k \in (DOMAIN lookup) \cup {key} |->
        IF k = key
        THEN (IF key \in DOMAIN lookup THEN lookup[key] ELSE <<>>) \o <<plant>>
        ELSE lookup[k]]

\* lines 24-44: the loop over plants_data from record i on
RECURSIVE BuildLookup(_, _, _)
BuildLookup(ps, i, lookup) ==
    IF i > Len(ps) THEN [raised |-> FALSE, lookup |-> lookup]
    ELSE LET pk == PlantKey(ps[i])
         IN  IF pk.kind = "raise" /\ ~Caught(pk.exc)
             THEN [raised |-> TRUE, lookup |-> lookup]
             ELSE IF pk.kind = "key"
             THEN BuildLookup(ps, i + 1, AddPlant(lookup, pk.key, ps[i]))
             ELSE BuildLookup(ps, i + 1, lookup)

\* lines 55-66: the lookup key of a lake
LakeKey(lake) ==
    Key(Upper(Strip(Get(lake, "county", <<>>))),
        FirstDigitRun(Get(lake, "elevation", <<>>)))

\* lines 69-75: the lake with its "plants" field set
EnrichLake(lake, lookup) ==
    [k \in (DOMAIN lake) \cup {"plants"} |->
        IF k = "plants"
        THEN (IF LakeKey(lake) \in DOMAIN lookup THEN lookup[LakeKey(lake)] ELSE <<>>)
        ELSE lake[k]]

\* the lake and plant records the merge is run on
LakeInputs ==
    { [k \in {"county", "elevation"} |->
          IF k = "county" THEN <<"K">> ELSE <<"3", " ", "f">>],
      [k \in {"county", "elevation"} |->
          IF k = "county" THEN <<" ", "k">> ELSE <<"0", "3">>],
      [k \in {"county", "elevation"} |->
          IF k = "county" THEN <<"K">> ELSE <<"f">>],
      [k \in {"county", "elevation"} |->
          IF k = "county" THEN <<>> ELSE <<"3", " ", "f">>],
      [k \in {"name"} |-> <<"A">>],
      [k \in {"county", "elevation"} |->
          IF k = "county" THEN <<"P">> ELSE <<"3", " ", "f">>] }

PlantInputs ==
    { [k \in {"county", "elevation"} |->
          IF k = "county" THEN <<"K">> ELSE <<"3">>],
      [k \in {"county", "elevation"} |->
          IF k = "county" THEN <<"k", " ">> ELSE <<" ", "0", "3">>],
      [k \in {"county", "elevation"} |->
          IF k = "county" THEN <<"K">> ELSE <<"3", "f">>],
      [k \in {"county", "elevation"} |->
          IF k = "county" THEN <<" ">> ELSE <<"3">>],
      [k \in {"county"} |-> <<"K">>],
      [k \in {"county", "elevation"} |->
          IF k = "county" THEN <<"P">> ELSE <<"4">>] }

ListsOf(S, n) == UNION {[1..m -> S] : m \in 0..n}

InitEnrich ==
    /\ DispatchIdle
    /\ FlattenIdle
    /\ EnumIdle
    /\ DateIdle
    /\ \E ls \in ListsOf(LakeInputs, MaxRecs) : \E ps \in ListsOf(PlantInputs, MaxRecs) :
          \/ EnrichInit(File(TRUE, ls), File(TRUE, ps), "load")
          \/ /\ ls = <<>>
             /\ EnrichInit(File(FALSE, <<>>), File(TRUE, ps), "load")
          \/ /\ ps = <<>>
             /\ EnrichInit(File(TRUE, ls), File(FALSE, <<>>), "load")
          \/ /\ ls = <<>> /\ ps = <<>>
             /\ EnrichInit(File(FALSE, <<>>), File(FALSE, <<>>), "load")

ELoad_MissingAsEmpty ==
    /\ epc = "load"
    /\ lakes_data' = efiles.lakes.data
    /\ plants_data' = efiles.plants.data
    /\ epc' = "index"
    /\ UNCHANGED <<efiles, plants_lookup, enriched_lakes_data, matched_count,
                   eoutfile>>
    /\ UNCHANGED <<dvars, fvars, gvars, cvars>>

\* lines 13-21: both files are opened; a missing one ends the function
ELoad ==
    /\ epc = "load"
    /\ IF efiles.lakes.exists /\ efiles.plants.exists
       THEN /\ lakes_data' = efiles.lakes.data
            /\ plants_data' = efiles.plants.data
            /\ epc' = "index"
       ELSE \* FileNotFoundError; lakes_data stays unbound when the first
            \* open fails, and neither list is used again
            /\ epc' = "returned"
            /\ UNCHANGED <<lakes_data, plants_data>>
    /\ UNCHANGED <<efiles, plants_lookup, enriched_lakes_data, matched_count,
                   eoutfile>>
    /\ UNCHANGED <<dvars, fvars, gvars, cvars>>

\* lines 23-44: the lookup map is built from plants_data
EIndex ==
    /\ epc = "index"
    /\ LET built == BuildLookup(plants_data, 1, <<>>)
       IN  /\ plants_lookup' = built.lookup
           /\ epc' = IF built.raised THEN "raised" ELSE "match"
    /\ UNCHANGED <<efiles, lakes_data, plants_data, enriched_lakes_data,
                   matched_count, eoutfile>>
    /\ UNCHANGED <<dvars, fvars, gvars, cvars>>

\* lines 46-77: every lake gets its "plants" field and is appended
EMatch ==
    /\ epc = "match"
    /\ enriched_lakes_data' =
          [i \in 1..Len(lakes_data) |-> EnrichLake(lakes_data[i], plants_lookup)]
    /\ lakes_data' = enriched_lakes_data'
    /\ matched_count' =
          Cardinality({i \in 1..Len(lakes_data) :
                          LakeKey(lakes_data[i]) \in DOMAIN plants_lookup})
    /\ epc' = "save"
    /\ UNCHANGED <<efiles, plants_data, plants_lookup, eoutfile>>
    /\ UNCHANGED <<dvars, fvars, gvars, cvars>>

\* lines 79-83: the enriched list is written
ESave ==
    /\ epc = "save"
    /\ eoutfile' = [written |-> TRUE, data |-> enriched_lakes_data]
    /\ epc' = "done"
    /\ UNCHANGED <<efiles, lakes_data, plants_data, plants_lookup,
                   enriched_lakes_data, matched_count>>
    /\ UNCHANGED <<dvars, fvars, gvars, cvars>>

NextEnrich == ELoad \/ EIndex \/ EMatch \/ ESave

SpecEnrich == InitEnrich /\ [][NextEnrich]_vars

(***************************************************************************)
(* denormalizer.py.  A lake of the input is [scalars, plants]: scalars is  *)
(* the JSON object without its "plants" key, plants tells whether that key *)
(* is absent, null or a list, and holds the list of event objects.         *)
(***************************************************************************)
\* None / JSON null: no string, as strings hold one-character elements
NoneV == <<"None">>

Truthy(v) == v # NoneV /\ v # <<>>

MonthNames ==
   << <<"J", "a", "n", "u", "a", "r", "y">>,
      <<"F", "e", "b", "r", "u", "a", "r", "y">>,
      <<"M", "a", "r", "c", "h">>,
      <<"A", "p", "r", "i", "l">>,
      <<"M", "a", "y">>,
      <<"J", "u", "n", "e">>,
      <<"J", "u", "l", "y">>,
      <<"A", "u", "g", "u", "s", "t">>,
      <<"S", "e", "p", "t", "e", "m", "b", "e", "r">>,
      <<"O", "c", "t", "o", "b", "e", "r">>,
      <<"N", "o", "v", "e", "m", "b", "e", "r">>,
      <<"D", "e", "c", "e", "m", "b", "e", "r">> >>

\* case-insensitive match of name at the start of str (re.IGNORECASE)
StartsWithNoCase(str, name) ==
    Len(str) >= Len(name) /\ Upper(SubSeq(str, 1, Len(name))) = Upper(name)

IsLeap(y) == (y % 4 = 0 /\ y % 100 # 0) \/ y % 400 = 0
DaysIn(m, y) ==
    IF m = 2 THEN (IF IsLeap(y) THEN 29 ELSE 28)
    ELSE IF m \in {4, 6, 9, 11} THEN 30 ELSE 31

\* the directive %d: 1..31 written with one or two characters
DayOk(str) ==
    \/ Len(str) = 1 /\ IsDigit(str[1]) /\ str[1] # "0"
    \/ /\ Len(str) = 2
       /\ \/ str[1] \in {"1", "2"} /\ IsDigit(str[2])
          \/ str[1] = "3" /\ str[2] \in {"0", "1"}
          \/ str[1] \in {"0", Space} /\ IsDigit(str[2]) /\ str[2] # "0"

\* datetime.strptime(str, '%B %d, %Y'): the month name, whitespace, the day,
\* a comma, whitespace, four digits of year, and nothing else; the date
\* must exist.  ok = FALSE stands for ValueError.
ParseDate(str) ==
    LET Fits(m, i, j) ==
            \* month m, the day in str[Len(name)+1+i ..], the comma at j
            LET n == Len(MonthNames[m])
                day == SubSeq(str, n + i + 1, j - 1)
                rest == SubSeq(str, j + 1, Len(str))
                year == LStrip(rest)
            IN  /\ StartsWithNoCase(str, MonthNames[m])
                /\ i >= 1
                /\ \A k \in n + 1..n + i - 1 : str[k] = Space
                /\ str[n + i] = Space
                /\ str[j] = ","
                /\ DayOk(day)
                /\ rest # <<>> /\ Head(rest) = Space
                /\ Len(year) = 4 /\ \A k \in 1..4 : IsDigit(year[k])
                /\ DigitsVal(year) >= 1
                /\ DigitsVal(LStrip(day)) <= DaysIn(m, DigitsVal(year))
        Cands == {c \in (1..12) \X (1..Len(str)) \X (1..Len(str)) :
                     /\ Len(MonthNames[c[1]]) + c[2] < c[3]
                     /\ Fits(c[1], c[2], c[3])}
    IN  IF Cands = {} THEN [ok |-> FALSE, y |-> 0, m |-> 0, d |-> 0]
        ELSE LET c == CHOOSE c \in Cands : TRUE
                 n == Len(MonthNames[c[1]])
             IN  [ok |-> TRUE,
                  y |-> DigitsVal(LStrip(SubSeq(str, c[3] + 1, Len(str)))),
                  m |-> c[1],
                  d |-> DigitsVal(LStrip(SubSeq(str, n + c[2] + 1, c[3] - 1)))]

\* n written with at least w digits
RECURSIVE Pad(_, _)
Pad(str, w) == IF Len(str) >= w THEN str ELSE Pad(<<"0">> \o str, w)

\* date_obj.isoformat()[:10]
IsoDate(y, m, d) ==
    Pad(NatStr(y), 4) \o <<"-">> \o Pad(NatStr(m), 2) \o <<"-">> \o Pad(NatStr(d), 2)

\* lines 21-22: the call prints the warning
Warns(date_string) == Truthy(date_string) /\ ~ParseDate(date_string).ok

convert_date_to_iso_NoneOnFailure(date_string) ==
    IF ~Truthy(date_string) THEN NoneV
    ELSE LET p == ParseDate(date_string)
         IN  IF p.ok THEN IsoDate(p.y, p.m, p.d) ELSE NoneV

\* convert_date_to_iso
convert_date_to_iso(date_string) ==
    IF ~Truthy(date_string) THEN NoneV
    ELSE LET p == ParseDate(date_string)
         IN  IF p.ok THEN IsoDate(p.y, p.m, p.d) ELSE date_string

BaseKeys == {"name", "url", "acres", "elevation", "county", "location_lat",
             "location_lon"}
EventKeys == {"stock_date", "species", "number_released",
              "number_of_fish_per_pound", "facility"}

\* lines 46-54: lake.get(key) for the seven scalar keys
BaseInfo(lake) == [k \in BaseKeys |-> Get(lake.scalars, k, NoneV)]

\* dict.update
Update(row, upd) ==
    [k \in (DOMAIN row) \cup (DOMAIN upd) |->
        IF k \in DOMAIN upd THEN upd[k] ELSE row[k]]

\* lines 60-67: the row of a lake without plant data
EmptyRow(lake) == Update(BaseInfo(lake), [k \in EventKeys |-> NoneV])

\* lines 73-79: the row of one plant event
EventRow(lake, plant) ==
    LET row == Update(BaseInfo(lake), plant)
    IN  IF "stock_date" \in DOMAIN row /\ Truthy(row["stock_date"])
        THEN [row EXCEPT !["stock_date"] = convert_date_to_iso(row["stock_date"])]
        ELSE row

\* lines 57-58: not lake.get('plants', [])
NoPlants(lake) == lake.plants.kind \in {"absent", "null"} \/ lake.plants.events = <<>>

\* lines 44-81 for one lake: the rows appended
LakeRows(lake) ==
    IF NoPlants(lake) THEN <<EmptyRow(lake)>>
    ELSE [j \in 1..Len(lake.plants.events) |-> EventRow(lake, lake.plants.events[j])]

RECURSIVE Flatten(_)
Flatten(ls) == IF ls = <<>> THEN <<>> ELSE LakeRows(Head(ls)) \o Flatten(Tail(ls))

\* the inputs of the flatten
DateJuly == <<"J", "u", "l", "y", " ", "1", ",", " ", "2", "0", "2", "5">>
DateBad == <<"n", "o", "p", "e">>

ScalarInputs ==
    { [k \in {"name", "county"} |-> IF k = "name" THEN <<"A">> ELSE <<"K">>],
      [k \in {"name"} |-> <<"B">>] }

EventInputs ==
    { [k \in {"stock_date", "species"} |->
          IF k = "stock_date" THEN DateJuly ELSE <<"x">>],
      [k \in {"stock_date", "county"} |->
          IF k = "stock_date" THEN DateBad ELSE <<"P">>],
      [k \in {"species", "stock_date"} |->
          IF k = "stock_date" THEN <<>> ELSE <<"y">>] }

PlantsInputs ==
    {[kind |-> "absent", events |-> <<>>], [kind |-> "null", events |-> <<>>]}
    \cup {[kind |-> "list", events |-> es] : es \in ListsOf(EventInputs, MaxEvents)}

FlatLakeInputs == [scalars : ScalarInputs, plants : PlantsInputs]

InitFlatten ==
    /\ DispatchIdle
    /\ EnrichIdle
    /\ EnumIdle
    /\ DateIdle
    /\ \E ls \in ListsOf(FlatLakeInputs, MaxFlat) :
          \/ FlattenInit(File(TRUE, ls), "load")
          \/ ls = <<>> /\ FlattenInit(File(FALSE, <<>>), "load")

\* lines 34-39: the input file is read; a missing file ends the function
FLoad ==
    /\ fpc = "load"
    /\ IF ffile.exists
       THEN data' = ffile.data /\ fpc' = "flatten"
       ELSE fpc' = "returned" /\ UNCHANGED data
    /\ UNCHANGED <<ffile, denormalized_data, foutfile>>
    /\ UNCHANGED <<dvars, evars, gvars, cvars>>

\* lines 41-81: the loop over the lakes
FFlatten ==
    /\ fpc = "flatten"
    /\ denormalized_data' = Flatten(data)
    /\ fpc' = "save"
    /\ UNCHANGED <<ffile, data, foutfile>>
    /\ UNCHANGED <<dvars, evars, gvars, cvars>>

\* lines 83-93: nothing is written for an empty list; open() may fail with
\* IOError, which is reported
FSave(ok) ==
    /\ fpc = "save"
    /\ IF denormalized_data = <<>>
       THEN ok /\ fpc' = "returned" /\ UNCHANGED foutfile
       ELSE /\ fpc' = "done"
            /\ foutfile' = IF ok THEN [written |-> TRUE, data |-> denormalized_data]
                           ELSE foutfile
    /\ UNCHANGED <<ffile, data, denormalized_data>>
    /\ UNCHANGED <<dvars, evars, gvars, cvars>>

NextFlatten == FLoad \/ FFlatten \/ (\E ok \in BOOLEAN : FSave(ok))

SpecFlatten == InitFlatten /\ [][NextFlatten]_vars

(***************************************************************************)
(* The three scripts that read an input file and write an output file:     *)
(* one run of one of them, from its start.                                 *)
(***************************************************************************)
\* lakes without plants, with one event and with two events
FewPlantsInputs ==
    {[kind |-> "absent", events |-> <<>>]}
    \cup {[kind |-> "list", events |-> es] : es \in ListsOf(EventInputs, 1)}
    \cup {[kind |-> "list", events |-> <<e, e>>] : e \in EventInputs}

InitFlattenFew ==
    /\ DispatchIdle
    /\ EnrichIdle
    /\ EnumIdle
    /\ DateIdle
    /\ \E ls \in ListsOf([scalars : ScalarInputs, plants : FewPlantsInputs], MaxFlat) :
          \/ FlattenInit(File(TRUE, ls), "load")
          \/ ls = <<>> /\ FlattenInit(File(FALSE, <<>>), "load")

InitScripts == InitRun \/ InitEnrich \/ InitFlattenFew

NextScripts == NextRun \/ NextEnrich \/ NextFlatten

SpecScripts == InitScripts /\ [][NextScripts]_vars

(***************************************************************************)
(* get_high_lakes.py / scraper.py: scrape_lakes_per_county, the paginated  *)
(* listing of one county.                                                  *)
(***************************************************************************)
MaxPages == 2    \* most pages of a listing that differ from the page beyond
PageCap == 4     \* requests made in a run of the model

\* a table row: whether its first cell holds a link, the link's text and
\* target, and the text of the county cell
RowInputs ==
    { [anchor |-> TRUE, text |-> <<" ", "A", " ">>, href |-> <<"/", "a">>,
       county |-> <<"K">>],
      [anchor |-> TRUE, text |-> <<"B">>, href |-> <<"/", "b">>,
       county |-> <<"K", " ">>],
      [anchor |-> FALSE, text |-> <<>>, href |-> <<>>, county |-> <<"K">>] }

ListingRows ==
    {<<>>} \cup {<<r>> : r \in RowInputs} \cup {<<r, r>> : r \in RowInputs}
    \cup {<<r1, r2>> \in RowInputs \X RowInputs : r1.anchor /\ ~r2.anchor}

\* the responses to a page request: a request error (connection, timeout,
\* HTTP status), a page without table, a page with a table
PageInputs ==
    {[kind |-> "error", rows |-> <<>>, next |-> FALSE]}
    \cup [kind : {"notable"}, rows : {<<>>}, next : BOOLEAN]
    \cup [kind : {"table"}, rows : ListingRows, next : BOOLEAN]

\* the response to the request for page n
PageAt(n) == IF n < Len(site) THEN site[n + 1] ELSE beyond

\* "https://wdfw.wa.gov"
Host == <<"h", "t", "t", "p", "s", ":", "/", "/",
          "w", "d", "f", "w", ".", "w", "a", ".", "g", "o", "v">>

\* get_high_lakes.py lines 78-119: the lake record of a row
LakeOfRow(row) ==
    [name |-> IF row.anchor THEN Strip(row.text) ELSE <<>>,
     url |-> IF row.anchor THEN Host \o row.href ELSE <<>>,
     county |-> Strip(row.county)]

\* the records appended for a response
Parsed(resp) ==
    IF resp.kind = "table"
    THEN [j \in 1..Len(resp.rows) |-> LakeOfRow(resp.rows[j])]
    ELSE <<>>

Stops_NextLinkOnly(resp) == resp.kind # "table" \/ ~resp.next

\* the breaks of the loop: RequestException, no table, no rows, no next link
Stops(resp) ==
    \/ resp.kind = "error"
    \/ resp.kind = "notable"
    \/ resp.rows = <<>>
    \/ ~resp.next

InitEnum ==
    /\ DispatchIdle /\ EnrichIdle /\ FlattenIdle /\ DateIdle
    /\ \E s \in ListsOf(PageInputs, MaxPages) : \E b \in PageInputs :
          EnumInit(s, b, "loop")

\* one iteration of the while loop: the request for page, the rows of the
\* response appended, then a break (followed by the return) or page += 1
EnumStep ==
    /\ gpc = "loop"
    /\ page < PageCap
    /\ requested' = Append(requested, page)
    /\ all_lakes_for_county' = all_lakes_for_county \o Parsed(PageAt(page))
    /\ IF Stops(PageAt(page))
       THEN gpc' = "returned" /\ UNCHANGED page
       ELSE page' = page + 1 /\ UNCHANGED gpc
    /\ UNCHANGED <<site, beyond>>
    /\ UNCHANGED <<dvars, evars, fvars, cvars>>

NextEnum == EnumStep

SpecEnum == InitEnum /\ [][NextEnum]_vars

\* the loop is sequential code: its next iteration is always taken, and
\* requests.get returns or raises within its timeout
FairSpecEnum == SpecEnum /\ WF_vars(EnumStep)

(***************************************************************************)
(* denormalizer.py: convert_date_to_iso, called on a value and then on     *)
(* what it returned.                                                       *)
(***************************************************************************)
\* "Month D, YYYY" written from the numbers of a month, a day and a year
WriteDate(m, d, y) ==
    MonthNames[m] \o <<" ">> \o NatStr(d) \o <<",", " ">> \o NatStr(y)

DateYears == {1900, 2024, 2025}

\* strings that are not of the form, and the empty string
OtherDates ==
    { <<>>,
      DateBad,
      <<"2", "0", "2", "5", "-", "0", "7", "-", "0", "1">>,
      <<"J", "u", "l", " ", "1", ",", " ", "2", "0", "2", "5">>,
      <<"J", "u", "l", "y", " ", "1", ",", "2", "0", "2", "5">>,
      <<"J", "u", "l", "y", " ", "1", ",", " ", "2", "5">>,
      <<"J", "u", "l", "y", " ", "1", " ", "2", "0", "2", "5">>,
      <<"7", "/", "1", "/", "2", "0", "2", "5">> }

InitDate ==
    /\ DispatchIdle /\ EnrichIdle /\ FlattenIdle /\ EnumIdle
    /\ \/ \E m \in 1..12 : \E d \in 1..31 : \E y \in DateYears :
             DateInit(WriteDate(m, d, y), [ok |-> TRUE, y |-> y, m |-> m, d |-> d])
       \/ \E str \in OtherDates : DateInit(str, NoFields)

\* a call of convert_date_to_iso: the first on the input value, the second
\* on the value the first returned
Convert ==
    /\ Len(results) < 2
    /\ LET arg == IF results = <<>> THEN date_input ELSE results[Len(results)]
       IN  /\ results' = Append(results, convert_date_to_iso(arg))
           /\ warned' = Append(warned, Warns(arg))
    /\ UNCHANGED <<date_input, date_fields>>
    /\ UNCHANGED <<dvars, evars, fvars, gvars>>

NextDate == Convert

SpecDate == InitDate /\ [][NextDate]_vars

(***************************************************************************)
(* Properties of the dispatcher.                                           *)
(***************************************************************************)
Ended == mainpc \in {"done", "aborted"}

\* the lakes whose record carries the keys read at line 101
Named(l) == lakes[l].name /\ lakes[l].county

Entries(l) == {i \in 1..Len(all_lakes_data) : all_lakes_data[i].lake = l}

RECURSIVE SumTo(_, _)
SumTo(f, n) == IF n = 0 THEN 0 ELSE f[n] + SumTo(f, n - 1)

LiveDrivers == SumTo(drivers, Len(lakes))

C2_AtMostMaxRetries ==
    \A l \in Idx : loads[l] <= max_retries

\* C3: a lake whose page load failed k < max_retries times with a recoverable
\* failure gets a next attempt: fetch_lake_data returns for it only after a
\* load that succeeded, with the rows of that load as plants.
C3_SuccessAfterKFailures ==
    \A l \in Idx :
        (/\ future[l] = "result"
         /\ WellFormed(lakes[l])
         /\ drvfaults[l] = 0
         /\ pagefails[l] < max_retries)
        => (~Failure(last[l]) /\ plants[l] = served[l])

\* C4: a lake whose every page load failed is returned with plants = [] after
\* a total backoff of base_delay * 2^i summed over i in [0, max_retries).
C4_ExhaustedBackoff ==
    \A l \in Idx :
        (/\ future[l] = "result"
         /\ WellFormed(lakes[l])
         /\ drvfaults[l] = 0
         /\ loads[l] > 0
         /\ pagefails[l] = loads[l])
        => (plants[l] = <<>> /\ backoff[l] = DelaySum(0, max_retries))

\* C5: an exception raised while one lake is processed never reaches main:
\* main does not abort, and at its end every lake has been collected and the
\* output file is written.
C5_FailuresStayLocal ==
    /\ mainpc \notin {"shutdown", "aborted"}
    /\ Ended => (yielded = Idx /\ outfile.written)

\* C6: a page that loads but lacks the target table ends the work on the
\* lake at once with plants = []: the load is not retried, and when it was
\* the first load, it is the only one and no backoff was slept.
C6_NoContentNotRetried ==
    \A l \in Idx :
        (last[l] = "nocontent" /\ drvfaults[l] = 0) =>
            /\ future[l] = "result"
            /\ plants[l] = <<>>
            /\ loads[l] = pagefails[l] + 1
            /\ pagefails[l] = 0 => (loads[l] = 1 /\ creations[l] = 1 /\ backoff[l] = 0)

\* a lake returned after one page load that lacked the table
C6_Witness ==
    \E l \in Idx :
        /\ last[l] = "nocontent" /\ drvfaults[l] = 0 /\ loads[l] = 1
        /\ future[l] = "result"

\* C7: a lake holds at most one live driver, and only while its worker is in
\* an attempt; the driver of an attempt is quit before the next attempt and
\* before the worker takes another lake, so at most max_workers drivers are
\* live at any time and none is live when the run has ended.
C7_DriverIsolation ==
    /\ \A l \in Idx : drivers[l] \in {0, 1}
    /\ \A l \in Idx : drivers[l] = 1 <=> future[l] = "running"
    /\ LiveDrivers <= max_workers
    /\ Ended => LiveDrivers = 0

\* all workers hold a driver while a lake waits, after a failed attempt
C7_Witness ==
    /\ LiveDrivers = max_workers
    /\ \E l \in Idx : future[l] = "pending"
    /\ \E l \in Idx : drivers[l] = 1 /\ pagefails[l] + drvfaults[l] > 0

(***************************************************************************)
(* Properties of the merge.                                                *)
(***************************************************************************)
NormCounty(rec) == Upper(Strip(Get(rec, "county", <<>>)))

\* a lake with a non-empty county and an elevation that holds a number
ValidLake(lake) ==
    NormCounty(lake) # <<>> /\ FirstDigitRun(Get(lake, "elevation", <<>>)) # <<>>
LakeElevation(lake) == DigitsVal(FirstDigitRun(Get(lake, "elevation", <<>>)))

\* a plant record with a non-empty county and a numeric elevation
ValidPlant(plant) ==
    /\ NormCounty(plant) # <<>>
    /\ Get(plant, "elevation", <<>>) # <<>>
    /\ IntParse(Get(plant, "elevation", <<>>)).ok
PlantElevation(plant) == IntParse(Get(plant, "elevation", <<>>)).val

\* the valid plant records of ps with the county and elevation of lake, in order
RECURSIVE Matching(_, _)
Matching(lake, ps) ==
    IF ps = <<>> THEN <<>>
    ELSE (IF /\ ValidPlant(Head(ps))
             /\ NormCounty(Head(ps)) = NormCounty(lake)
             /\ PlantElevation(Head(ps)) = LakeElevation(lake)
          THEN <<Head(ps)>> ELSE <<>>) \o Matching(lake, Tail(ps))

WithoutPlants(rec) == [k \in (DOMAIN rec) \ {"plants"} |-> rec[k]]

\* C8: a lake with a non-empty county and a numeric elevation receives
\* exactly the plant records with a non-empty county and a numeric elevation
\* whose normalized county is equal and whose elevation is the same integer,
\* in input order.
C8_MergeKeyMatching ==
    epc = "done" =>
        \A i \in 1..Len(efiles.lakes.data) :
            ValidLake(efiles.lakes.data[i]) =>
                eoutfile.data[i]["plants"] =
                    Matching(efiles.lakes.data[i], efiles.plants.data)

\* C9: records with an empty county or a non-numeric or empty elevation are
\* left out of the matching and nothing else: the merge of two existing files
\* neither raises nor returns early, the output holds every input lake once,
\* in input order, with a plants field; such a lake has plants = [] and such
\* a plant record is in no lake's plants.
C9_MergeTolerance ==
    /\ (efiles.lakes.exists /\ efiles.plants.exists) => epc \notin {"raised", "returned"}
    /\ epc = "done" =>
        /\ eoutfile.written
        /\ Len(eoutfile.data) = Len(efiles.lakes.data)
        /\ \A i \in 1..Len(efiles.lakes.data) :
              /\ "plants" \in DOMAIN eoutfile.data[i]
              /\ WithoutPlants(eoutfile.data[i]) = efiles.lakes.data[i]
              /\ ~ValidLake(efiles.lakes.data[i]) => eoutfile.data[i]["plants"] = <<>>
              /\ \A j \in 1..Len(eoutfile.data[i]["plants"]) :
                    ValidPlant(eoutfile.data[i]["plants"][j])

\* a finished merge of a matched lake, a lake with an empty county or a
\* non-numeric elevation, and a plant record of that kind
C9_Witness ==
    /\ epc = "done"
    /\ \E i \in 1..Len(efiles.lakes.data) : ~ValidLake(efiles.lakes.data[i])
    /\ \E i \in 1..Len(eoutfile.data) : eoutfile.data[i]["plants"] # <<>>
    /\ \E j \in 1..Len(efiles.plants.data) : ~ValidPlant(efiles.plants.data[j])

(***************************************************************************)
(* Properties of the flatten.                                              *)
(***************************************************************************)
Events(lake) == IF lake.plants.kind = "list" THEN lake.plants.events ELSE <<>>

RowCount(lake) == IF Events(lake) = <<>> THEN 1 ELSE Len(Events(lake))

\* the rows rs are the rows the claim gives lake
LakeRowsOK(lake, rs) ==
    /\ Len(rs) = RowCount(lake)
    /\ \A j \in 1..Len(rs) : \A k \in BaseKeys :
          k \in DOMAIN rs[j] /\ rs[j][k] = Get(lake.scalars, k, NoneV)
    /\ IF Events(lake) = <<>>
       THEN /\ DOMAIN rs[1] = BaseKeys \cup EventKeys
            /\ \A k \in EventKeys : rs[1][k] = NoneV
       ELSE \A j \in 1..Len(rs) : \A k \in (DOMAIN Events(lake)[j]) \ BaseKeys :
               /\ k \in DOMAIN rs[j]
               /\ k # "stock_date" => rs[j][k] = Events(lake)[j][k]

RECURSIVE RowsOK(_, _)
RowsOK(ls, rows) ==
    IF ls = <<>> THEN rows = <<>>
    ELSE /\ Len(rows) >= RowCount(Head(ls))
         /\ LakeRowsOK(Head(ls), SubSeq(rows, 1, RowCount(Head(ls))))
         /\ RowsOK(Tail(ls), SubSeq(rows, RowCount(Head(ls)) + 1, Len(rows)))

\* C10: the rows of the flatten are, lake after lake, one row with null event
\* fields for a lake without events, and for a lake with k >= 1 events k
\* rows in event order, each with the event's fields and with the lake's
\* seven scalar values unchanged, whatever keys the event mapping has.
C10_FlattenRows ==
    (ffile.exists /\ fpc \in {"save", "done", "returned"}) =>
        RowsOK(ffile.data, denormalized_data)

\* the key a consumer groups rows by: (name, county)
FlatKey(rec) == <<Get(rec, "name", NoneV), Get(rec, "county", NoneV)>>

\* a row carries an event when at least one event field is non-null
CarriesEvent(row) == \E k \in EventKeys : k \in DOMAIN row /\ row[k] # NoneV

EventRowsOf(key, rows) ==
    Cardinality({i \in 1..Len(rows) : FlatKey(rows[i]) = key /\ CarriesEvent(rows[i])})

\* the (lake, event) pairs of the input lakes with the key
RECURSIVE PairsOf(_, _)
PairsOf(key, ls) ==
    IF ls = <<>> THEN 0
    ELSE (IF FlatKey(Head(ls).scalars) = key THEN Len(Events(Head(ls))) ELSE 0)
         + PairsOf(key, Tail(ls))

FlatKeys(ls, rows) ==
    {FlatKey(ls[i].scalars) : i \in 1..Len(ls)} \cup {FlatKey(rows[i]) : i \in 1..Len(rows)}

\* C11: grouping the rows of the flatten by (name, county) and counting, per
\* key, the rows that carry an event gives the number of (lake, event) pairs
\* of the input lakes with that key; lakes without events contribute zero.
C11_RoundTrip ==
    (ffile.exists /\ fpc \in {"save", "done", "returned"}) =>
        \A key \in FlatKeys(ffile.data, denormalized_data) :
            EventRowsOf(key, denormalized_data) = PairsOf(key, ffile.data)

(***************************************************************************)
(* Properties of the input and output files of the scripts.                *)
(***************************************************************************)
Untouched(out) == out = [written |-> FALSE, data |-> <<>>]

\* C12: a script whose input file is missing ends at the read without
\* touching its output file: enrich_data when either of its two files is
\* missing, denormalize_and_save_to_json when its input file is missing,
\* and main of the dispatcher when high_lakes.json is missing, in which case
\* no call of fetch_lake_data is submitted and no driver is created.
C12_MissingInput ==
    /\ (epc # "idle" /\ ~(efiles.lakes.exists /\ efiles.plants.exists)) =>
          (epc \in {"load", "returned"} /\ Untouched(eoutfile))
    /\ (fpc # "idle" /\ ~ffile.exists) =>
          (fpc \in {"load", "returned"} /\ Untouched(foutfile))
    /\ (mainpc # "idle" /\ ~hlfile.exists) =>
          /\ mainpc \in {"open", "raised"}
          /\ Untouched(outfile)
          /\ future = <<>> /\ creations = <<>>

\* enrich_data has ended at the read: the lakes are there, the plants are not
C12_Witness ==
    epc = "returned" /\ efiles.lakes.exists /\ ~efiles.plants.exists
    /\ efiles.lakes.data # <<>>

RECURSIVE TotalRows(_)
TotalRows(ls) == IF ls = <<>> THEN 0 ELSE RowCount(Head(ls)) + TotalRows(Tail(ls))

\* the output files are untouched until the script is at its end
OutputAtEnd ==
    /\ mainpc # "done" => Untouched(outfile)
    /\ epc # "done" => Untouched(eoutfile)
    /\ fpc # "done" => Untouched(foutfile)

\* a step that changes an output file is the first write of the file, every
\* input item has its result in the in-memory list, and the list is written
OutputOnce ==
    /\ outfile' # outfile =>
          /\ Untouched(outfile)
          /\ yielded = Idx /\ Idx = 1..Len(hlfile.data)
          /\ \A l \in Idx : future[l] = "result" /\ Cardinality(Entries(l)) = 1
          /\ outfile' = [written |-> TRUE, data |-> all_lakes_data]
          /\ mainpc' = "done"
    /\ eoutfile' # eoutfile =>
          /\ Untouched(eoutfile)
          /\ Len(enriched_lakes_data) = Len(efiles.lakes.data)
          /\ eoutfile' = [written |-> TRUE, data |-> enriched_lakes_data]
          /\ epc' = "done"
    /\ foutfile' # foutfile =>
          /\ Untouched(foutfile)
          /\ Len(denormalized_data) = TotalRows(ffile.data)
          /\ foutfile' = [written |-> TRUE, data |-> denormalized_data]
          /\ fpc' = "done"

\* C13: in every run of the dispatcher, the merger and the flattener the
\* output file is written at most once, in the last step of the run, when
\* every input item has been processed and its result is in the in-memory
\* list; in every state before, and in every state of a run that aborts or
\* returns early, the output file is untouched.
C13_WrittenOnceAtEnd == []OutputAtEnd /\ [][OutputOnce]_vars

\* the dispatcher has written the results of two lakes, one of them after a
\* failed page load
C13_Witness ==
    /\ mainpc = "done" /\ outfile.written
    /\ Len(outfile.data) = 2
    /\ \E l \in Idx : pagefails[l] + drvfaults[l] > 0

(***************************************************************************)
(* Properties of the enumerator.                                           *)
(***************************************************************************)
\* a page that ends the listing
EndPage(resp) ==
    resp.kind \in {"error", "notable"} \/ Len(resp.rows) = 0 \/ resp.next = FALSE

\* the records of the rows of pages 0 .. n - 1, in page and row order
RECURSIVE RecordsUpTo(_)
RecordsUpTo(n) ==
    IF n = 0 THEN <<>>
    ELSE RecordsUpTo(n - 1) \o
         (IF PageAt(n - 1).kind = "table"
          THEN [j \in 1..Len(PageAt(n - 1).rows) |-> LakeOfRow(PageAt(n - 1).rows[j])]
          ELSE <<>>)

\* the pages requested are 0, 1, 2, ... in this order, none after a page
\* that ends the listing; the function has returned exactly when the last
\* requested page ends the listing, with the records of all requested pages
EnumOrder ==
    /\ requested = [i \in 1..Len(requested) |-> i - 1]
    /\ \A i \in 1..Len(requested) - 1 : ~EndPage(PageAt(requested[i]))
    /\ gpc = "returned" <=>
          (requested # <<>> /\ EndPage(PageAt(requested[Len(requested)])))
    /\ gpc = "returned" => all_lakes_for_county = RecordsUpTo(Len(requested))

\* the listing has a page that ends it
HasEndPage == \E n \in 0..Len(site) : EndPage(PageAt(n))

\* C14: scrape_lakes_per_county requests the pages 0, 1, 2, ... in this
\* order, each once; it returns at the first page without table, without
\* rows or without next link, or at the first request error, with the
\* records of every row of the pages requested, in page and row order; and
\* when the listing has such a page, the function eventually returns.
C14_Enumeration ==
    /\ []EnumOrder
    /\ (gpc = "loop" /\ HasEndPage) ~> (gpc = "returned")

\* the function has returned at the third page, which has rows and no next
\* link, with the records of three pages
C14_Witness ==
    /\ gpc = "returned"
    /\ Len(requested) = 3
    /\ PageAt(2).kind = "table" /\ PageAt(2).rows # <<>>
    /\ Len(all_lakes_for_county) > Len(PageAt(2).rows)

(***************************************************************************)
(* Properties of the date conversion.                                      *)
(***************************************************************************)
\* day d exists in month m of year y
IsCalendarDate(f) ==
    f.d <= (IF f.m \in {1, 3, 5, 7, 8, 10, 12} THEN 31
            ELSE IF f.m # 2 THEN 30
            ELSE IF (f.y % 4 = 0 /\ f.y % 100 # 0) \/ f.y % 400 = 0 THEN 29
            ELSE 28)

TwoDigits(n) == <<Digits[(n \div 10) + 1], Digits[(n % 10) + 1]>>

\* "YYYY-MM-DD"
IsoText(f) ==
    TwoDigits(f.y \div 100) \o TwoDigits(f.y % 100) \o <<"-">>
    \o TwoDigits(f.m) \o <<"-">> \o TwoDigits(f.d)

====
